---------------------------- MODULE Spec2Model ----------------------------
(***************************************************************************)
(* A model of tapir/convar: console variables (convar.go), the console     *)
(* registry and command executor (console.go), the log buffer and the      *)
(* Save/Load persistence.                                                   *)
(*                                                                         *)
(* Text is modelled as a sequence of runes; a rune is a one-character      *)
(* string, except "<e9>", which stands for U+00E9 (two bytes in UTF-8).    *)
(***************************************************************************)
EXTENDS Integers, Sequences, FiniteSets, TLC

(***************************************************************************)
(* Text: the functions of package strings and strconv the code calls       *)
(***************************************************************************)

Upper == <<"A","B","C","D","E","F","G","H","I","J","K","L","M",
           "N","O","P","Q","R","S","T","U","V","W","X","Y","Z">>

Lower == <<"a","b","c","d","e","f","g","h","i","j","k","l","m",
           "n","o","p","q","r","s","t","u","v","w","x","y","z">>

Digits == <<"0","1","2","3","4","5","6","7","8","9">>

\* unicode.ToLower on one rune
ToLowerRune(r) ==
    IF \E i \in DOMAIN Upper : Upper[i] = r
    THEN Lower[CHOOSE i \in DOMAIN Upper : Upper[i] = r]
    ELSE r

\* strings.ToLower
ToLower(s) == [i \in 1..Len(s) |-> ToLowerRune(s[i])]

\* unicode.IsSpace, on the white space the inputs use
IsSpace(r) == r \in {" ", "\t"}

IsDigit(r) == \E i \in DOMAIN Digits : Digits[i] = r

DigitVal(r) == (CHOOSE i \in DOMAIN Digits : Digits[i] = r) - 1

\* the number of bytes of a rune in UTF-8
RuneBytes(r) == IF r = "<e9>" THEN 2 ELSE 1

RECURSIVE ByteLen(_)
\* len(s) of a Go string: its length in bytes
ByteLen(s) == IF s = <<>> THEN 0 ELSE RuneBytes(Head(s)) + ByteLen(Tail(s))

\* len([]rune(s)): the length in runes
RuneLen(s) == Len(s)

RECURSIVE TrimLeft(_)
TrimLeft(s) == IF s # <<>> /\ IsSpace(Head(s)) THEN TrimLeft(Tail(s)) ELSE s

RECURSIVE TrimRight(_)
TrimRight(s) ==
    IF s # <<>> /\ IsSpace(s[Len(s)]) THEN TrimRight(SubSeq(s, 1, Len(s) - 1)) ELSE s

\* strings.TrimSpace
TrimSpace(s) == TrimRight(TrimLeft(s))

RECURSIVE FieldsFrom(_, _, _)
\* the fields of s after the runes already read: cur is the field being read
FieldsFrom(s, cur, acc) ==
    IF s = <<>>
    THEN IF cur = <<>> THEN acc ELSE Append(acc, cur)
    ELSE IF IsSpace(Head(s))
         THEN FieldsFrom(Tail(s), <<>>, IF cur = <<>> THEN acc ELSE Append(acc, cur))
         ELSE FieldsFrom(Tail(s), Append(cur, Head(s)), acc)

\* strings.Fields: s split around runs of white space
Fields(s) == FieldsFrom(s, <<>>, <<>>)

\* s[n:] for a text s, n counted in runes
Drop(s, n) == SubSeq(s, n + 1, Len(s))

\* strings.Contains
Contains(s, sub) ==
    \E i \in 0..(Len(s) - Len(sub)) : SubSeq(s, i + 1, i + Len(sub)) = sub


(***************************************************************************)
(* Values: the interface{} a convar holds, of kind Int, Float64 or String  *)
(***************************************************************************)

\* A value carries its dynamic type t. An Int is n; a String is s; a Float64
\* is the decimal n / 10^e with no trailing zero in the fraction, or, with
\* sp set, one of the special values NaN, +Inf and -Inf.
IntVal(n) == [t |-> "Int", n |-> n, e |-> 0, s |-> <<>>, sp |-> ""]

StrVal(s) == [t |-> "String", n |-> 0, e |-> 0, s |-> s, sp |-> ""]

RECURSIVE FloatVal(_, _)
FloatVal(n, e) ==
    IF e > 0 /\ n % 10 = 0
    THEN FloatVal(n \div 10, e - 1)
    ELSE [t |-> "Float64", n |-> n, e |-> e, s |-> <<>>, sp |-> ""]

SpecialFloat(sp) == [t |-> "Float64", n |-> 0, e |-> 0, s |-> <<>>, sp |-> sp]

NaN == SpecialFloat("NaN")

\* reflect.TypeOf(v).Kind()
KindOf(v) == v.t

\* Go's == on two interface values: the same dynamic type and equal dynamic
\* values, where a float64 NaN is equal to nothing, itself included.
GoEq(a, b) == a = b /\ a.sp # "NaN"

RECURSIVE DigitsVal(_, _)
\* the number the decimal digits s spell, after the digits already read
DigitsVal(s, acc) ==
    IF s = <<>> THEN acc ELSE DigitsVal(Tail(s), 10 * acc + DigitVal(Head(s)))

AllDigits(s) == \A i \in 1..Len(s) : IsDigit(s[i])

HasSign(s) == s # <<>> /\ Head(s) \in {"+", "-"}

Unsigned(s) == IF HasSign(s) THEN Tail(s) ELSE s

SignOf(s) == IF s # <<>> /\ Head(s) = "-" THEN -1 ELSE 1

\* strconv.Atoi: an optional sign and at least one decimal digit
Atoi(s) ==
    LET d == Unsigned(s)
    IN  IF d # <<>> /\ AllDigits(d)
        THEN [ok |-> TRUE, v |-> IntVal(SignOf(s) * DigitsVal(d, 0))]
        ELSE [ok |-> FALSE, v |-> IntVal(0)]

\* the index of the first "." of s, or 0
DotAt(s) ==
    IF \E i \in 1..Len(s) : s[i] = "."
    THEN CHOOSE i \in 1..Len(s) : s[i] = "." /\ \A j \in 1..(i - 1) : s[j] # "."
    ELSE 0

\* strconv.ParseFloat(s, 64) on the texts the model feeds it: "nan", a
\* signed "inf" or "infinity" (letter case ignored), and a signed decimal
\* with an optional fraction. Exponents, hexadecimal floats and
\* underscores are not among the inputs.
ParseFloat(s) ==
    LET low  == ToLower(s)
        d    == Unsigned(low)
        dot  == DotAt(d)
        ip   == IF dot = 0 THEN d ELSE SubSeq(d, 1, dot - 1)
        fp   == IF dot = 0 THEN <<>> ELSE SubSeq(d, dot + 1, Len(d))
        bad  == [ok |-> FALSE, v |-> FloatVal(0, 0)]
    IN  IF low = <<"n","a","n">> THEN [ok |-> TRUE, v |-> NaN]
        ELSE IF d \in {<<"i","n","f">>, <<"i","n","f","i","n","i","t","y">>}
        THEN [ok |-> TRUE,
              v |-> SpecialFloat(IF SignOf(low) = -1 THEN "-Inf" ELSE "+Inf")]
        ELSE IF ip \o fp # <<>> /\ AllDigits(ip \o fp)
        THEN [ok |-> TRUE,
              v |-> FloatVal(SignOf(low) * DigitsVal(ip \o fp, 0), Len(fp))]
        ELSE bad

RECURSIVE NatText(_)
\* the decimal digits of a natural number
NatText(n) ==
    IF n < 10 THEN <<Digits[n + 1]>>
    ELSE Append(NatText(n \div 10), Digits[(n % 10) + 1])

Abs(n) == IF n < 0 THEN -n ELSE n

\* strconv.Itoa, which %v prints an int with
Itoa(n) == IF n < 0 THEN <<"-">> \o NatText(-n) ELSE NatText(n)

RECURSIVE Pow10(_)
Pow10(e) == IF e = 0 THEN 1 ELSE 10 * Pow10(e - 1)

RECURSIVE PadZeros(_, _)
PadZeros(s, w) == IF Len(s) >= w THEN s ELSE PadZeros(<<"0">> \o s, w)

\* %v of a float64 (the %g verb) for the magnitudes of the model, which Go
\* prints without an exponent
FormatFloat(v) ==
    IF v.sp = "NaN" THEN <<"N","a","N">>
    ELSE IF v.sp = "+Inf" THEN <<"+","I","n","f">>
    ELSE IF v.sp = "-Inf" THEN <<"-","I","n","f">>
    ELSE LET a  == Abs(v.n)
             ip == NatText(a \div Pow10(v.e))
             fp == IF v.e = 0 THEN <<>>
                   ELSE <<".">> \o PadZeros(NatText(a % Pow10(v.e)), v.e)
         IN  (IF v.n < 0 THEN <<"-">> ELSE <<>>) \o ip \o fp

\* fmt.Sprintf("%v", value)
FormatValue(v) ==
    CASE v.t = "Int"     -> Itoa(v.n)
      [] v.t = "Float64" -> FormatFloat(v)
      [] v.t = "String"  -> v.s


(***************************************************************************)
(* State                                                                   *)
(***************************************************************************)

VARIABLES
    variables,   \* Console.variables: canonical name -> the registered ConVar
    value,       \* ConVar.value of every registered convar
    panicked,    \* a call panicked: the calling goroutine is unwinding
    last,        \* the last call: what it was given and what it returned
    thr,         \* each goroutine's place in the write it is running
    started,     \* the number of calls each goroutine has made
    nCalls,      \* the callback invocations of the concurrent specification
    nChanges,    \* the stores that replaced the value by a different one
    bufMaxLines, \* Console.bufMaxLines
    logLevel,    \* Console.logLevel
    buffer,      \* Console.buffer: the lines of the log
    appended,    \* the lines appended to the buffer since it was last cleared
    saved,       \* the text of the config file Save wrote, or NoFile
    fresh,       \* the values of a fresh console after Load, or Nil
    lastReg,     \* the convar registered last and the name it was created under
    stack,       \* the console calls each goroutine is inside, the innermost last
    varLock,     \* Console.varLock, a sync.RWMutex
    bufLock      \* Console.bufLock, a sync.Mutex: the goroutine holding it, or "none"

\* A nil *ConVar, and a nil interface{} value
Nil == <<"<nil>">>

NilVal == [t |-> "nil", n |-> 0, e |-> 0, s |-> <<>>, sp |-> ""]

\* The kinds NewConVar accepts
Kinds == {"Int", "Float64", "String"}

\* NewConVar: the name is lowered; the convar starts at its default. valSet
\* is "user" for a callback of the host, which the model records in calls,
\* and "nil" for a convar constructed with no callback.
NewConVar(varName, varType, isFunc, valDefault, valSet) ==
    [varName |-> ToLower(varName), varType |-> varType, isFunc |-> isFunc,
     valDefault |-> valDefault, valSet |-> valSet]

\* NewConVar panics on these arguments
NewConVarPanics(varType, valDefault) ==
    varType # KindOf(valDefault) \/ varType \notin Kinds

\* The part of the program's state a call reads and writes, as a record the
\* operators below take and return: the convars' values, the callbacks
\* invoked during the call (in order) and whether the call panicked.
Machine(val) == [value |-> val, calls |-> <<>>, panicked |-> FALSE]

\* cv.valSet(cv.console, oldVal, newVal): calling a nil func panics
valSet(m, cv, oldVal, newVal) ==
    IF cv.valSet = "nil"
    THEN [m EXCEPT !.panicked = TRUE]
    ELSE [m EXCEPT !.calls =
              Append(@, [name |-> cv.varName, old |-> oldVal, new |-> newVal])]

\* cv.value.Store(v)
Store(m, cv, v) == [m EXCEPT !.value[cv.varName] = v]

\* write with the isFunc case storing the value before the callback
write_StoresFunc(m, cv, varType, v, argc) ==
    IF varType # KindOf(v) THEN [m |-> m, err |-> "errTypeMismatch"]
    ELSE IF cv.varType # varType THEN [m |-> m, err |-> "errVarBadType"]
    ELSE IF ~cv.isFunc /\ argc < 2 THEN [m |-> m, err |-> "nil"]
    ELSE LET oldVal == m.value[cv.varName]
         IN  IF GoEq(oldVal, v)
             THEN [m |-> m, err |-> "nil"]
             ELSE [m |-> valSet(Store(m, cv, v), cv, oldVal, v), err |-> "nil"]

\* write without the comparison of the old and the new value
write_NoCompare(m, cv, varType, v, argc) ==
    IF varType # KindOf(v) THEN [m |-> m, err |-> "errTypeMismatch"]
    ELSE IF cv.varType # varType THEN [m |-> m, err |-> "errVarBadType"]
    ELSE IF cv.isFunc THEN [m |-> valSet(m, cv, cv.valDefault, v), err |-> "nil"]
    ELSE IF argc < 2 THEN [m |-> m, err |-> "nil"]
    ELSE [m |-> valSet(Store(m, cv, v), cv, m.value[cv.varName], v), err |-> "nil"]

\* write without the argc < 2 return
write_NoArgcCheck(m, cv, varType, v, argc) ==
    IF varType # KindOf(v) THEN [m |-> m, err |-> "errTypeMismatch"]
    ELSE IF cv.varType # varType THEN [m |-> m, err |-> "errVarBadType"]
    ELSE IF cv.isFunc THEN [m |-> valSet(m, cv, cv.valDefault, v), err |-> "nil"]
    ELSE LET oldVal == m.value[cv.varName]
         IN  IF GoEq(oldVal, v)
             THEN [m |-> m, err |-> "nil"]
             ELSE [m |-> valSet(Store(m, cv, v), cv, oldVal, v), err |-> "nil"]

\* write without the test of the convar's kind
write_NoKindCheck(m, cv, varType, v, argc) ==
    IF v = NilVal THEN [m |-> m, err |-> "errNilValue"]
    ELSE IF varType # KindOf(v) THEN [m |-> m, err |-> "errTypeMismatch"]
    ELSE IF cv.isFunc THEN [m |-> valSet(m, cv, cv.valDefault, v), err |-> "nil"]
    ELSE IF argc < 2 THEN [m |-> m, err |-> "nil"]
    ELSE LET oldVal == m.value[cv.varName]
         IN  IF GoEq(oldVal, v)
             THEN [m |-> m, err |-> "nil"]
             ELSE [m |-> valSet(Store(m, cv, v), cv, oldVal, v), err |-> "nil"]

\* ConVar.write up to its Load of the old value and the comparison: the
\* error it returns, or what it does next with the old value it loaded
writeHead(val, cv, varType, v, argc) ==
    IF v = NilVal
    THEN [do |-> "return", err |-> "errNilValue", old |-> NilVal]
    ELSE IF varType # KindOf(v)
    THEN [do |-> "return", err |-> "errTypeMismatch", old |-> NilVal]
    ELSE IF cv.varType # varType
    THEN [do |-> "return", err |-> "errVarBadType", old |-> NilVal]
    ELSE IF cv.isFunc
    THEN [do |-> "callFunc", err |-> "nil", old |-> cv.valDefault]
    ELSE IF argc < 2
    THEN [do |-> "return", err |-> "nil", old |-> NilVal]
    ELSE IF GoEq(val[cv.varName], v)
    THEN [do |-> "return", err |-> "nil", old |-> NilVal]
    ELSE [do |-> "store", err |-> "nil", old |-> val[cv.varName]]

\* ConVar.write, run by one goroutine with no other in between
write(m, cv, varType, v, argc) ==
    LET h == writeHead(m.value, cv, varType, v, argc)
    IN  CASE h.do = "return"   -> [m |-> m, err |-> h.err]
          [] h.do = "callFunc" -> [m |-> valSet(m, cv, h.old, v), err |-> "nil"]
          [] h.do = "store"    ->
                 [m |-> valSet(Store(m, cv, v), cv, h.old, v), err |-> "nil"]

\* The value exec parses for a convar of kind varType from the text after
\* the name: rest is that text trimmed, lent the number of tokens.
ParseValue(varType, rest, lent) ==
    LET valStr == IF lent = 1 THEN <<"0">> ELSE rest
    IN  CASE varType = "Int"     -> Atoi(valStr)
          [] varType = "Float64" -> ParseFloat(valStr)
          [] varType = "String"  -> [ok |-> TRUE, v |-> StrVal(rest)]

\* The head of exec, which reads the command line alone: the line trimmed
\* and lowered, its tokens, the text after the first token, trimmed, and
\* the value that text parses to for each kind of convar.
Tokenize(cmdIn) ==
    LET cmd    == TrimSpace(ToLower(cmdIn))
        tokens == Fields(cmd)
        lent   == Len(tokens)
        rest   == IF lent = 0 THEN <<>> ELSE TrimSpace(Drop(cmd, RuneLen(tokens[1])))
    IN  [tokens |-> tokens, lent |-> lent,
         parsed |-> [k \in Kinds |-> ParseValue(k, rest, lent)]]

\* execHead without the return for a command read from a file
execHead_RunsFuncFromFile(vars, fromFile, tk) ==
    IF tk.lent = 0 \/ tk.tokens[1] = <<"#">>
    THEN [do |-> "return", err |-> "nil"]
    ELSE IF tk.tokens[1] \notin DOMAIN vars
    THEN [do |-> "return", err |-> "errVarNotFound"]
    ELSE LET cv == vars[tk.tokens[1]]
             p  == tk.parsed[cv.varType]
         IN  IF ~p.ok
             THEN [do |-> "return", err |-> "errBadStringConversion"]
             ELSE [do |-> "write", err |-> "nil", cv |-> cv, v |-> p.v,
                   argc |-> tk.lent]

\* execHead going on to write with the zero value after a failed parse
execHead_IgnoresParseError(vars, fromFile, tk) ==
    IF tk.lent = 0 \/ tk.tokens[1] = <<"#">>
    THEN [do |-> "return", err |-> "nil"]
    ELSE IF tk.tokens[1] \notin DOMAIN vars
    THEN [do |-> "return", err |-> "errVarNotFound"]
    ELSE LET cv == vars[tk.tokens[1]]
             p  == tk.parsed[cv.varType]
         IN  IF fromFile /\ cv.isFunc
             THEN [do |-> "return", err |-> "nil"]
             ELSE [do |-> "write", err |-> "nil", cv |-> cv, v |-> p.v,
                   argc |-> tk.lent]

\* Console.exec on a tokenized command line up to its call of write: what
\* it returns without calling write, or the write it calls
execHead(vars, fromFile, tk) ==
    IF tk.lent = 0 \/ tk.tokens[1] = <<"#">>
    THEN [do |-> "return", err |-> "nil"]
    ELSE IF tk.tokens[1] \notin DOMAIN vars
    THEN [do |-> "return", err |-> "errVarNotFound"]
    ELSE LET cv == vars[tk.tokens[1]]
             p  == tk.parsed[cv.varType]
         IN  IF fromFile /\ cv.isFunc
             THEN [do |-> "return", err |-> "nil"]
             ELSE IF ~p.ok
             THEN [do |-> "return", err |-> "errBadStringConversion"]
             ELSE [do |-> "write", err |-> "nil", cv |-> cv, v |-> p.v,
                   argc |-> tk.lent]

\* Console.exec on a tokenized command line: the convar it returns (or
\* Nil), its error, and the machine
execTokens(m, vars, fromFile, tk) ==
    LET h == execHead(vars, fromFile, tk)
    IN  IF h.do = "return"
        THEN [m |-> m, cv |-> Nil, err |-> h.err]
        ELSE LET w == write(m, h.cv, h.cv.varType, h.v, h.argc)
             IN  IF w.err # "nil"
                 THEN [m |-> w.m, cv |-> Nil, err |-> w.err]
                 ELSE [m |-> w.m, cv |-> h.cv.varName, err |-> "nil"]

\* Reset invoking the callback after its store
ResetVar_CallsBack(m, cv) ==
    valSet(Store(m, cv, cv.valDefault), cv, m.value[cv.varName], cv.valDefault)

\* ConVar.Reset
ResetVar(m, cv) == Store(m, cv, cv.valDefault)

\* Console.ResetAllVar
ResetAll(m, vars) ==
    [m EXCEPT !.value = [n \in DOMAIN vars |-> vars[n].valDefault]]


\* A path os.Open fails on
NoFile == <<"<no file>">>

(***************************************************************************)
(* The log buffer                                                          *)
(***************************************************************************)

\* LogLevel
LogNone == 0
LogInfo == 1
LogWarning == 2
LogError == 3

LogLevels == {LogNone, LogInfo, LogWarning, LogError}

\* The example host's NewConsole(10, LogError, ...)
HostBufMaxLines == 10

\* log appending at capacity with no line discarded
log_NoEvict(buf, maxLines, line) ==
    [buffer |-> Append(buf, line), panicked |-> FALSE]

\* Console.log on buffer buf: line is prefix + fmt.Sprintf(format, a...).
\* c.buffer[1:] panics on an empty buffer.
log(buf, maxLines, line) ==
    IF Len(buf) >= maxLines
    THEN IF Len(buf) < 1
         THEN [buffer |-> buf, panicked |-> TRUE]
         ELSE [buffer |-> Append(Tail(buf), line), panicked |-> FALSE]
    ELSE [buffer |-> Append(buf, line), panicked |-> FALSE]

\* The level LogInfof, LogWarningf and LogErrorf each compare with the
\* log level: a helper returns without logging when its level is greater.
GateLevel(helper) ==
    CASE helper = "LogInfof"    -> LogInfo
      [] helper = "LogWarningf" -> LogInfo
      [] helper = "LogErrorf"   -> LogInfo

\* The level of the messages of each helper, by the LogLevel constants
Severity(helper) ==
    CASE helper = "LogInfof"    -> LogInfo
      [] helper = "LogWarningf" -> LogWarning
      [] helper = "LogErrorf"   -> LogError

\* Console.BufferRaw: a copy of the buffer
BufferRaw(buf) == [i \in 1..Len(buf) |-> buf[i]]

RECURSIVE chunksFrom_DropsRest(_, _)
\* chunks' loop without the chunk of the runes left over
chunksFrom_DropsRest(s, chunkSize) ==
    IF Len(s) < chunkSize THEN <<>>
    ELSE <<SubSeq(s, 1, chunkSize)>>
             \o chunksFrom_DropsRest(Drop(s, chunkSize), chunkSize)

RECURSIVE chunksFrom(_, _)
\* chunks' loop on the runes of s: every chunkSize runes make a chunk, and
\* the runes left over make the last one
chunksFrom(s, chunkSize) ==
    IF Len(s) = 0 THEN <<>>
    ELSE IF Len(s) <= chunkSize THEN <<s>>
    ELSE <<SubSeq(s, 1, chunkSize)>> \o chunksFrom(Drop(s, chunkSize), chunkSize)

\* chunks(s, chunkSize): make([]rune, chunkSize) panics on a negative size,
\* and chunk[0] = r on a size of 0
chunks(s, chunkSize) ==
    IF chunkSize >= ByteLen(s)
    THEN [ret |-> <<s>>, panicked |-> FALSE]
    ELSE IF chunkSize <= 0
    THEN [ret |-> <<>>, panicked |-> TRUE]
    ELSE [ret |-> chunksFrom(s, chunkSize), panicked |-> FALSE]

RECURSIVE BufferWrappedRaw(_, _)
\* Console.BufferWrappedRaw(maxWidth) on buffer buf
BufferWrappedRaw(buf, maxWidth) ==
    IF buf = <<>>
    THEN [ret |-> <<>>, panicked |-> FALSE]
    ELSE LET line == Head(buf)
             c    == IF RuneLen(line) > maxWidth
                     THEN chunks(line, maxWidth)
                     ELSE [ret |-> <<line>>, panicked |-> FALSE]
             rest == BufferWrappedRaw(Tail(buf), maxWidth)
         IN  IF c.panicked \/ rest.panicked
             THEN [ret |-> <<>>, panicked |-> TRUE]
             ELSE [ret |-> c.ret \o rest.ret, panicked |-> FALSE]

(***************************************************************************)
(* The console of the sequential specification and the inputs of its calls *)
(***************************************************************************)

cl_w == <<"c","l","_","w">>
cl_f == <<"c","l","_","f">>
cl_s == <<"c","l","_","s">>
cl_r == <<"c","l","_","r">>
cl_e == <<"c","l","_","e">>
cl_q == <<"c","l","_","q">>
Sp   == <<" ">>

\* The convars the host registers: an Int, a Float64 and a String variable,
\* an Int and a String command (isFunc), and an Int variable constructed
\* with no callback.
HostConVars ==
    { NewConVar(<<"C","L","_","W">>, "Int", FALSE, IntVal(10), "user"),
      NewConVar(cl_f, "Float64", FALSE, FloatVal(15, 1), "user"),
      NewConVar(cl_s, "String", FALSE, StrVal(<<"a","b">>), "user"),
      NewConVar(cl_r, "Int", TRUE, IntVal(0), "user"),
      NewConVar(cl_e, "String", TRUE, StrVal(<<"x">>), "user"),
      NewConVar(cl_q, "Int", FALSE, IntVal(0), "nil") }

\* Console.RegConVar for each convar of cvs, on the map vars
Registered(vars, cvs) ==
    [n \in (DOMAIN vars) \cup {cv.varName : cv \in cvs} |->
        IF \E cv \in cvs : cv.varName = n
        THEN CHOOSE cv \in cvs : cv.varName = n
        ELSE vars[n]]

NoVars == [n \in {} |-> Nil]

\* The command lines given to ExecCmd
CmdInputs ==
    { cl_w,
      cl_w \o Sp \o <<"1","0">>,
      cl_w \o Sp \o <<"7">>,
      <<" ","C","L","_","W"," "," ","-","3"," ">>,
      cl_w \o Sp \o <<"x">>,
      cl_w \o Sp \o <<"1"," ","2">>,
      <<"C","L","_","F"," ">>,
      cl_f \o Sp \o <<"n","a","n">>,
      cl_f \o Sp \o <<"2",".","5","0">>,
      cl_s,
      cl_s \o Sp \o <<"C","d">>,
      cl_s \o Sp \o <<"a"," "," ","b">>,
      cl_r,
      cl_r \o Sp \o <<"5">>,
      cl_r \o Sp \o <<"x">>,
      cl_e,
      cl_e \o Sp \o <<"H","i">>,
      cl_q,
      cl_q \o Sp \o <<"1">>,
      <<>>,
      <<" ","\t">>,
      <<"#">> \o Sp \o cl_w \o Sp \o <<"7">>,
      <<"n","o","p","e">> \o Sp \o <<"1">> }

IntInputs == {0, 7}

FloatInputs == {FloatVal(25, 1), NaN}

StringInputs == {<<"C","d">>, <<>>}

\* bufio.MaxScanTokenSize, the largest line a Scanner made by NewScanner reads
MaxScanTokenSize == 65536

\* A line that sets cl_s to a text of MaxScanTokenSize bytes
LongLine == cl_s \o Sp \o [i \in 1..MaxScanTokenSize |-> "a"]

\* The files given to Load, each a sequence of lines
FileInputs ==
    { <<>>,
      << cl_w \o Sp \o <<"7">>, cl_s \o Sp \o <<"c","d">> >>,
      << cl_r \o Sp \o <<"5">>, cl_w \o Sp \o <<"x">>,
         <<"n","o","p","e">> \o Sp \o <<"1">>, cl_e, cl_w \o Sp \o <<"-","3">> >>,
      << <<"#">> \o Sp \o <<"c">>, <<>>, cl_f \o Sp \o <<"n","a","n">>, cl_s >>,
      << cl_w \o Sp \o <<"7">>, cl_q \o Sp \o <<"1">>, cl_s \o Sp \o <<"c","d">> >>,
      << LongLine, cl_w \o Sp \o <<"7">> >>,
      NoFile }

\* The names convars are created under
RegNames ==
    { <<"C","L","_","W">>, <<"c","l","_","w">>, <<"C","l","_","S">>,
      <<"A","b","c">> }

\* The names looked up
LookupNames ==
    { <<"C","L","_","W">>, <<"c","L","_","s">>, <<"a","B","C">>,
      <<"c","l","_">> }

\* What follows the name in the command lines executed
CmdRests == {<<>>, <<" ","7">>}

\* The texts and the limits given to Suggest
SuggestStrs ==
    { <<"c","l">>, <<"C","L","_">>, <<"<e9>","b">>, <<"a","b","c">> }

SuggestLimits == {0, 1, 2}

\* The command lines executed against the registry
NameCmds == {varName \o rest : varName \in LookupNames, rest \in CmdRests}

\* The Scanner cannot read this line: it fills the buffer of MaxScanTokenSize
\* bytes with no newline in it (every rune has one byte at least)
TooLong(line) ==
    IF Len(line) >= MaxScanTokenSize THEN TRUE
    ELSE ByteLen(line) >= MaxScanTokenSize

\* The lines scanner.Scan() yields of a file with these lines: Scan returns
\* false at the first line it cannot read, and Load does not look at
\* scanner.Err()
Scanned(lines) ==
    IF \E i \in DOMAIN lines : TooLong(lines[i])
    THEN SubSeq(lines, 1,
                (CHOOSE i \in DOMAIN lines :
                     TooLong(lines[i]) /\ \A j \in 1..(i - 1) : ~TooLong(lines[j])) - 1)
    ELSE lines

\* Every command line the model gives to exec, tokenized once
InputLines ==
    CmdInputs \cup NameCmds
        \cup UNION {{f[i] : i \in 1..Len(f)} \ {LongLine} : f \in FileInputs \ {NoFile}}

Tokenized == [c \in InputLines |-> Tokenize(c)]

\* Console.exec(fromFile, cmd)
exec(m, vars, fromFile, cmdIn) ==
    execTokens(m, vars, fromFile,
               IF cmdIn \in DOMAIN Tokenized THEN Tokenized[cmdIn] ELSE Tokenize(cmdIn))

RECURSIVE ExecLines(_, _, _)
\* Load's loop: exec(true, line) for each line, the results dropped
ExecLines(m, vars, lines) ==
    IF lines = <<>> \/ m.panicked
    THEN m
    ELSE ExecLines(exec(m, vars, TRUE, Head(lines)).m, vars, Tail(lines))

\* Console.Load on a file holding the given lines
LoadFile(m, vars, file) ==
    IF file = NoFile
    THEN [m |-> m, err |-> "errOpen"]
    ELSE [m |-> ExecLines(m, vars, Scanned(file)), err |-> "nil"]

\* ConVar without the lowering of the name
ConVar_NoLower(vars, varName) ==
    IF varName \in DOMAIN vars THEN <<vars[varName]>> ELSE <<>>

\* Console.ConVar(varName): the convar in a sequence, or <<>> for nil
ConVar(vars, varName) ==
    IF ToLower(varName) \in DOMAIN vars THEN <<vars[ToLower(varName)]>> ELSE <<>>

RECURSIVE SuggestFrom(_, _, _, _)
\* Suggest's loop over allCvs, cvs being the convars found so far
SuggestFrom(allCvs, str, n, cvs) ==
    IF allCvs = <<>> THEN cvs
    ELSE IF Contains(Head(allCvs).varName, ToLower(str))
         THEN IF Len(cvs) + 1 >= n
              THEN Append(cvs, Head(allCvs))
              ELSE SuggestFrom(Tail(allCvs), str, n, Append(cvs, Head(allCvs)))
         ELSE SuggestFrom(Tail(allCvs), str, n, cvs)

\* Suggest starting at two runes
Suggest_From2Runes(allCvs, str, n) ==
    IF RuneLen(str) < 2 THEN <<>> ELSE SuggestFrom(allCvs, str, n, <<>>)

\* Console.Suggest(str, n), allCvs being what ConVars returned
Suggest(allCvs, str, n) ==
    IF RuneLen(str) < 3 THEN <<>> ELSE SuggestFrom(allCvs, str, n, <<>>)

RECURSIVE SaveText(_, _, _)
\* Console.Save: the bytes it writes when its range over the map visits
\* the convars in the given order
SaveText(val, vars, order) ==
    IF order = <<>> THEN <<>>
    ELSE LET cv == vars[Head(order)]
             v  == val[Head(order)]
         IN  (IF ~GoEq(v, cv.valDefault) /\ ~cv.isFunc
              THEN cv.varName \o <<" ">> \o FormatValue(v) \o <<"\n">>
              ELSE <<>>)
             \o SaveText(val, vars, Tail(order))

\* The orders a range over a map with the keys S may take
Orders(S) ==
    {o \in [1..Cardinality(S) -> S] : \A i, j \in DOMAIN o : o[i] = o[j] => i = j}

\* the index of the first "\n" of s, or 0
NewlineAt(s) ==
    IF \E i \in 1..Len(s) : s[i] = "\n"
    THEN CHOOSE i \in 1..Len(s) : s[i] = "\n" /\ \A j \in 1..(i - 1) : s[j] # "\n"
    ELSE 0

\* bufio.ScanLines drops one trailing "\r" of a line
DropCR(s) == IF s # <<>> /\ s[Len(s)] = "\r" THEN SubSeq(s, 1, Len(s) - 1) ELSE s

RECURSIVE ScanLines(_)
\* The lines bufio.Scanner with bufio.ScanLines reads from a text
ScanLines(s) ==
    IF s = <<>> THEN <<>>
    ELSE LET i == NewlineAt(s)
         IN  IF i = 0 THEN <<DropCR(s)>>
             ELSE <<DropCR(SubSeq(s, 1, i - 1))>> \o ScanLines(Drop(s, i))

(***************************************************************************)
(* The sequential specification: one goroutine calls the console           *)
(***************************************************************************)

vars == <<variables, value, panicked, last, thr, started, nCalls, nChanges,
          bufMaxLines, logLevel, buffer, appended, saved, fresh, lastReg,
          stack, varLock, bufLock>>

\* The goroutines of the concurrent specification
Threads == {"g1", "g2"}

Idle == [pc |-> "idle", name |-> Nil, v |-> NilVal, old |-> NilVal]

\* A sync.RWMutex nobody holds: the read locks each goroutine holds, the
\* goroutine holding the write lock, and the goroutines blocked in Lock()
NoLock == [readers |-> [g \in Threads |-> 0], writer |-> "none", waiting |-> {}]

\* What a call leaves in last. tick alternates, so that no call is a
\* stuttering step.
Called(op, name, arg, m, cv, err) ==
    [op |-> op, name |-> name, arg |-> arg, calls |-> m.calls, cv |-> cv,
     err |-> err, tick |-> 1 - last.tick]

Init ==
    /\ variables = Registered(NoVars, HostConVars)
    /\ value = [n \in DOMAIN variables |-> variables[n].valDefault]
    /\ panicked = FALSE
    /\ last = [op |-> "NewConsole", name |-> Nil, arg |-> <<>>, calls |-> <<>>,
               cv |-> Nil, err |-> "nil", tick |-> 0]
    /\ thr = [g \in Threads |-> Idle]
    /\ started = [g \in Threads |-> 0]
    /\ nCalls = 0
    /\ nChanges = 0
    /\ bufMaxLines = HostBufMaxLines
    /\ logLevel = LogError
    /\ buffer = <<>>
    /\ appended = <<>>
    /\ saved = NoFile
    /\ fresh = Nil
    /\ lastReg = [created |-> Nil, cv |-> <<>>]
    /\ stack = [g \in Threads |-> <<>>]
    /\ varLock = NoLock
    /\ bufLock = "none"

\* The effect of a call that ends with machine m
Return(op, name, arg, m, cv, err) ==
    /\ value' = m.value
    /\ panicked' = m.panicked
    /\ last' = Called(op, name, arg, m, cv, err)
    /\ UNCHANGED <<variables, thr, started, nCalls, nChanges,
                   bufMaxLines, logLevel, buffer, appended, saved, fresh, lastReg,
                   stack, varLock, bufLock>>

\* Console.ExecCmd(cmd)
ExecCmd(cmd) ==
    /\ ~panicked
    /\ LET r == exec(Machine(value), variables, FALSE, cmd)
       IN  Return("ExecCmd", Nil, cmd, r.m, r.cv, r.err)

\* cv.SetX(v) for the registered convar named n: write(kind, v, 2)
Set(op, n, kind, v) ==
    /\ ~panicked
    /\ LET w == write(Machine(value), variables[n], kind, v, 2)
       IN  Return(op, n, v, w.m, Nil, w.err)

SetInt(n, i) == Set("SetInt", n, "Int", IntVal(i))

SetBool(n, b) == Set("SetBool", n, "Int", IF b THEN IntVal(1) ELSE IntVal(0))

SetFloat64(n, f) == Set("SetFloat64", n, "Float64", f)

SetString(n, s) == Set("SetString", n, "String", StrVal(s))

\* cv.Reset() for the registered convar named n
Reset(n) ==
    /\ ~panicked
    /\ Return("Reset", n, <<>>, ResetVar(Machine(value), variables[n]), Nil, "nil")

\* Console.ResetAllVar()
ResetAllVar ==
    /\ ~panicked
    /\ Return("ResetAllVar", Nil, <<>>, ResetAll(Machine(value), variables), Nil, "nil")

\* Console.Load(path), the file at path holding the lines of file
Load(file) ==
    /\ ~panicked
    /\ LET r == LoadFile(Machine(value), variables, file)
       IN  Return("Load", Nil, file, r.m, Nil, r.err)

Next ==
    \/ \E cmd \in CmdInputs : ExecCmd(cmd)
    \/ \E n \in DOMAIN variables, i \in IntInputs : SetInt(n, i)
    \/ \E n \in DOMAIN variables, b \in BOOLEAN : SetBool(n, b)
    \/ \E n \in DOMAIN variables, f \in FloatInputs : SetFloat64(n, f)
    \/ \E n \in DOMAIN variables, s \in StringInputs : SetString(n, s)
    \/ \E n \in DOMAIN variables : Reset(n)
    \/ ResetAllVar
    \/ \E file \in FileInputs : Load(file)

Spec == Init /\ [][Next]_vars


(***************************************************************************)
(* The concurrent specification: goroutines call ExecCmd and SetInt, and   *)
(* the steps of write (the Load, the Store, the callback) interleave       *)
(***************************************************************************)

\* The calls each goroutine may make
MaxCalls == 2

\* The command lines and the integers the goroutines write
ConcCmds == {cl_w, cl_w \o Sp \o <<"7">>, cl_w \o Sp \o <<"1","0">>}

ConcInts == {0, 7}

\* Begin with write going from its Load to the callback, the Store left out
Begin_CallbackBeforeStore(g, h, cv, v) ==
    /\ thr' = [thr EXCEPT ![g] =
                  CASE h.do = "return"   -> Idle
                    [] h.do = "callFunc" ->
                           [pc |-> "callback", name |-> cv.varName, v |-> v,
                            old |-> h.old]
                    [] h.do = "store"    ->
                           [pc |-> "callback", name |-> cv.varName, v |-> v,
                            old |-> h.old]]
    /\ started' = [started EXCEPT ![g] = @ + 1]
    /\ UNCHANGED <<variables, value, panicked, last, nCalls, nChanges,
                   bufMaxLines, logLevel, buffer, appended, saved, fresh, lastReg,
                   stack, varLock, bufLock>>

\* write has loaded the old value and goes on to its Store, or, for a
\* command, to its callback; or it has returned
Begin(g, h, cv, v) ==
    /\ thr' = [thr EXCEPT ![g] =
                  CASE h.do = "return"   -> Idle
                    [] h.do = "callFunc" ->
                           [pc |-> "callback", name |-> cv.varName, v |-> v,
                            old |-> h.old]
                    [] h.do = "store"    ->
                           [pc |-> "store", name |-> cv.varName, v |-> v,
                            old |-> h.old]]
    /\ started' = [started EXCEPT ![g] = @ + 1]
    /\ UNCHANGED <<variables, value, panicked, last, nCalls, nChanges,
                   bufMaxLines, logLevel, buffer, appended, saved, fresh, lastReg,
                   stack, varLock, bufLock>>

\* Goroutine g calls ExecCmd(cmd): exec up to write's Load of the old value
ExecCmdLoad(g, cmd) ==
    /\ ~panicked
    /\ thr[g].pc = "idle"
    /\ started[g] < MaxCalls
    /\ LET e == execHead(variables, FALSE, Tokenized[cmd])
       IN  IF e.do = "return"
           THEN Begin(g, [do |-> "return"], Nil, NilVal)
           ELSE Begin(g, writeHead(value, e.cv, e.cv.varType, e.v, e.argc),
                      e.cv, e.v)

\* Goroutine g calls SetInt(i) on convar n: write up to its Load
SetIntLoad(g, n, i) ==
    /\ ~panicked
    /\ thr[g].pc = "idle"
    /\ started[g] < MaxCalls
    /\ Begin(g, writeHead(value, variables[n], "Int", IntVal(i), 2),
             variables[n], IntVal(i))

\* Goroutine g's write stores its value: cv.value.Store(value)
WriteStore(g) ==
    /\ ~panicked
    /\ thr[g].pc = "store"
    /\ value' = [value EXCEPT ![thr[g].name] = thr[g].v]
    /\ nChanges' = IF value[thr[g].name] # thr[g].v THEN nChanges + 1 ELSE nChanges
    /\ thr' = [thr EXCEPT ![g].pc = "callback"]
    /\ UNCHANGED <<variables, panicked, last, started, nCalls,
                   bufMaxLines, logLevel, buffer, appended, saved, fresh, lastReg,
                   stack, varLock, bufLock>>

\* Goroutine g's write invokes the callback: cv.valSet(cv.console, oldVal, value)
WriteCallback(g) ==
    /\ ~panicked
    /\ thr[g].pc = "callback"
    /\ panicked' = (variables[thr[g].name].valSet = "nil")
    /\ nCalls' = IF variables[thr[g].name].isFunc \/ panicked' THEN nCalls
                 ELSE nCalls + 1
    /\ thr' = [thr EXCEPT ![g] = Idle]
    /\ UNCHANGED <<variables, value, last, started, nChanges,
                   bufMaxLines, logLevel, buffer, appended, saved, fresh, lastReg,
                   stack, varLock, bufLock>>

NextConc ==
    \/ \E g \in Threads, cmd \in ConcCmds : ExecCmdLoad(g, cmd)
    \/ \E g \in Threads, i \in ConcInts : SetIntLoad(g, cl_w, i)
    \/ \E g \in Threads : WriteStore(g)
    \/ \E g \in Threads : WriteCallback(g)

SpecConc == Init /\ [][NextConc]_vars

\* No goroutine is inside a call
Quiescent == \A g \in Threads : thr[g].pc = "idle"

\* C3 as stated: whatever the interleaving of the concurrent writers, the
\* callback of a variable has been invoked as many times as its stored
\* value changed to a different value.
C3_Original == Quiescent => nCalls = nChanges

(***************************************************************************)
(* The specification of the log buffer. log runs under bufLock from its    *)
(* first statement to its return, so the calls of concurrent goroutines    *)
(* take effect one at a time, in any order.                                *)
(***************************************************************************)

\* The greatest bufMaxLines of the consoles created
MaxBufLines == 2

\* The lines logged between two ClearBuffer calls
MaxLogged == 3

\* The prefixes given to NewConsole
logInfoPrefix == <<"I">>
logWarnPrefix == <<"W">>
logErrPrefix == <<"E">>

PrefixOf(helper) ==
    CASE helper = "LogInfof"    -> logInfoPrefix
      [] helper = "LogWarningf" -> logWarnPrefix
      [] helper = "LogErrorf"   -> logErrPrefix

\* The formatted messages logged
LogMsgs == {<<"a">>, <<"<e9>","b","c","d">>}

\* The widths given to BufferWrappedRaw
WrapWidths == {0, 2, 4}

InitLog ==
    /\ variables = Registered(NoVars, HostConVars)
    /\ value = [n \in DOMAIN variables |-> variables[n].valDefault]
    /\ panicked = FALSE
    /\ last = [op |-> "NewConsole", arg |-> <<>>, ret |-> <<>>]
    /\ thr = [g \in Threads |-> Idle]
    /\ started = [g \in Threads |-> 0]
    /\ nCalls = 0
    /\ nChanges = 0
    /\ bufMaxLines \in 0..MaxBufLines
    /\ logLevel \in LogLevels
    /\ buffer = <<>>
    /\ appended = <<>>
    /\ saved = NoFile
    /\ fresh = Nil
    /\ lastReg = [created |-> Nil, cv |-> <<>>]
    /\ stack = [g \in Threads |-> <<>>]
    /\ varLock = NoLock
    /\ bufLock = "none"

LogFrame ==
    UNCHANGED <<variables, value, thr, started, nCalls, nChanges, bufMaxLines,
                saved, fresh, lastReg,
                   stack, varLock, bufLock>>

LogCalled(op, arg, ret) == [op |-> op, arg |-> arg, ret |-> ret]

\* c.log(prefix, format, a...): last.ret holds the line appended
LogLine(op, line) ==
    LET r == log(buffer, bufMaxLines, line)
    IN  /\ Len(appended) < MaxLogged
        /\ buffer' = r.buffer
        /\ panicked' = r.panicked
        /\ appended' = IF r.panicked THEN appended ELSE Append(appended, line)
        /\ last' = LogCalled(op, line, IF r.panicked THEN <<>> ELSE <<line>>)
        /\ UNCHANGED logLevel
        /\ LogFrame

\* The helper returns without logging
LogNothing(op, msg) ==
    /\ last' = LogCalled(op, msg, <<>>)
    /\ UNCHANGED <<buffer, appended, panicked, logLevel>>
    /\ LogFrame

\* Console.LogInfof, LogWarningf and LogErrorf
LogLevelf(helper, msg) ==
    /\ ~panicked
    /\ IF GateLevel(helper) > logLevel
       THEN LogNothing(helper, msg)
       ELSE LogLine(helper, PrefixOf(helper) \o msg)

LogInfof(msg) == LogLevelf("LogInfof", msg)

LogWarningf(msg) == LogLevelf("LogWarningf", msg)

LogErrorf(msg) == LogLevelf("LogErrorf", msg)

\* Console.LogPrintf
LogPrintf(msg) ==
    /\ ~panicked
    /\ LogLine("LogPrintf", msg)

\* Console.SetLogLevel
SetLogLevel(level) ==
    /\ ~panicked
    /\ logLevel' = level
    /\ last' = LogCalled("SetLogLevel", level, <<>>)
    /\ UNCHANGED <<buffer, appended, panicked>>
    /\ LogFrame

\* Console.ClearBuffer
ClearBuffer ==
    /\ ~panicked
    /\ buffer' = <<>>
    /\ appended' = <<>>
    /\ last' = LogCalled("ClearBuffer", <<>>, <<>>)
    /\ UNCHANGED <<panicked, logLevel>>
    /\ LogFrame

\* A call of Console.BufferRaw
CallBufferRaw ==
    /\ ~panicked
    /\ last' = LogCalled("BufferRaw", <<>>, BufferRaw(buffer))
    /\ UNCHANGED <<buffer, appended, panicked, logLevel>>
    /\ LogFrame

\* A call of Console.BufferWrappedRaw(maxWidth)
CallBufferWrappedRaw(maxWidth) ==
    /\ ~panicked
    /\ LET r == BufferWrappedRaw(buffer, maxWidth)
       IN  /\ panicked' = r.panicked
           /\ last' = LogCalled("BufferWrappedRaw", maxWidth, r.ret)
    /\ UNCHANGED <<buffer, appended, logLevel>>
    /\ LogFrame

NextLog ==
    \/ \E msg \in LogMsgs : LogInfof(msg)
    \/ \E msg \in LogMsgs : LogWarningf(msg)
    \/ \E msg \in LogMsgs : LogErrorf(msg)
    \/ \E msg \in LogMsgs : LogPrintf(msg)
    \/ \E level \in LogLevels : SetLogLevel(level)
    \/ ClearBuffer
    \/ CallBufferRaw
    \/ \E maxWidth \in WrapWidths : CallBufferWrappedRaw(maxWidth)

SpecLog == InitLog /\ [][NextLog]_vars

(***************************************************************************)
(* The specification of Save and Load: the host assigns values, saves the  *)
(* convars to a file and loads the file into a fresh console that has the  *)
(* same convars registered, all at their defaults                          *)
(***************************************************************************)

\* The convars of the saved console: an Int and a String variable and an
\* Int and a String command
FileConVars == {cv \in HostConVars : cv.varName \in {cl_w, cl_s, cl_r, cl_e}}

FileCmds ==
    { cl_w \o Sp \o <<"7">>,
      <<" ","C","L","_","W"," "," ","-","3"," ">>,
      cl_s \o Sp \o <<"C","d">>,
      cl_s \o Sp \o <<"a"," "," ","b">>,
      cl_r \o Sp \o <<"5">> }

FileStrings == {<<"C","d">>, <<"c","d">>, <<"c"," ","d">>, <<"c","\n","d">>}

InitFile ==
    /\ variables = Registered(NoVars, FileConVars)
    /\ value = [n \in DOMAIN variables |-> variables[n].valDefault]
    /\ panicked = FALSE
    /\ last = [op |-> "NewConsole", name |-> Nil, arg |-> <<>>, calls |-> <<>>,
               cv |-> Nil, err |-> "nil", tick |-> 0]
    /\ thr = [g \in Threads |-> Idle]
    /\ started = [g \in Threads |-> 0]
    /\ nCalls = 0
    /\ nChanges = 0
    /\ bufMaxLines = HostBufMaxLines
    /\ logLevel = LogError
    /\ buffer = <<>>
    /\ appended = <<>>
    /\ saved = NoFile
    /\ fresh = Nil
    /\ lastReg = [created |-> Nil, cv |-> <<>>]
    /\ stack = [g \in Threads |-> <<>>]
    /\ varLock = NoLock
    /\ bufLock = "none"

\* Console.Save(path): the range over the map takes any order
Save ==
    /\ ~panicked
    /\ fresh = Nil
    /\ \E order \in Orders(DOMAIN variables) :
           saved' = SaveText(value, variables, order)
    /\ last' = Called("Save", Nil, <<>>, Machine(value), Nil, "nil")
    /\ UNCHANGED <<variables, value, panicked, thr, started, nCalls, nChanges,
                   bufMaxLines, logLevel, buffer, appended, fresh, lastReg,
                   stack, varLock, bufLock>>

\* Console.Load(path) on a fresh console with the same convars registered
LoadFresh ==
    /\ ~panicked
    /\ saved # NoFile
    /\ LET defaults == [n \in DOMAIN variables |-> variables[n].valDefault]
           r == LoadFile(Machine(defaults), variables, ScanLines(saved))
       IN  /\ fresh' = r.m.value
           /\ last' = Called("Load", Nil, <<>>, r.m, Nil, r.err)
    /\ UNCHANGED <<variables, value, panicked, thr, started, nCalls, nChanges,
                   bufMaxLines, logLevel, buffer, appended, saved, lastReg,
                   stack, varLock, bufLock>>

\* The host assigns until it saves
NextFile ==
    \/ /\ saved = NoFile
       /\ \/ \E cmd \in FileCmds : ExecCmd(cmd)
          \/ \E i \in IntInputs : SetInt(cl_w, i)
          \/ \E s \in FileStrings : SetString(cl_s, s)
          \/ ResetAllVar
    \/ Save
    \/ LoadFresh

SpecFile == InitFile /\ [][NextFile]_vars

\* C7 as stated: after Save and Load into a fresh console with the same
\* declarations, every variable (not a command) of the fresh console holds
\* the value it holds in the saved console.
C7_Original ==
    fresh # Nil =>
        \A n \in DOMAIN variables : ~variables[n].isFunc => fresh[n] = value[n]

(***************************************************************************)
(* The specification of the registry: the host creates and registers       *)
(* convars under names of any letter case, looks them up and asks for      *)
(* suggestions                                                             *)
(***************************************************************************)

InitNames ==
    /\ variables = NoVars
    /\ value = NoVars
    /\ panicked = FALSE
    /\ last = [op |-> "NewConsole", name |-> Nil, arg |-> <<>>, calls |-> <<>>,
               cv |-> Nil, err |-> "nil", tick |-> 0]
    /\ thr = [g \in Threads |-> Idle]
    /\ started = [g \in Threads |-> 0]
    /\ nCalls = 0
    /\ nChanges = 0
    /\ bufMaxLines = HostBufMaxLines
    /\ logLevel = LogError
    /\ buffer = <<>>
    /\ appended = <<>>
    /\ saved = NoFile
    /\ fresh = Nil
    /\ lastReg = [created |-> Nil, cv |-> <<>>]
    /\ stack = [g \in Threads |-> <<>>]
    /\ varLock = NoLock
    /\ bufLock = "none"

NamesFrame ==
    UNCHANGED <<panicked, thr, started, nCalls, nChanges, bufMaxLines, logLevel,
                buffer, appended, saved, fresh, stack, varLock, bufLock>>

\* c.RegConVar(NewConVar(varName, varType, false, desc, valDefault, valSet))
RegConVar(varName, valDefault) ==
    LET cv == NewConVar(varName, KindOf(valDefault), FALSE, valDefault, "user")
    IN  /\ variables' = Registered(variables, {cv})
        /\ value' = [n \in DOMAIN variables' |->
                        IF n = cv.varName THEN cv.valDefault ELSE value[n]]
        /\ lastReg' = [created |-> varName, cv |-> <<cv>>]
        /\ last' = [op |-> "RegConVar", name |-> Nil, arg |-> varName,
                    calls |-> <<>>, cv |-> Nil, err |-> "nil", tick |-> 1 - last.tick]
        /\ NamesFrame

\* A call of Console.ConVar(varName): last.cv is the convar returned
CallConVar(varName) ==
    /\ last' = [op |-> "ConVar", name |-> Nil, arg |-> varName, calls |-> <<>>,
                cv |-> ConVar(variables, varName), err |-> "nil",
                tick |-> 1 - last.tick]
    /\ UNCHANGED <<variables, value, lastReg>>
    /\ NamesFrame

\* A call of Console.Suggest(str, n): ConVars returns the convars in any
\* order, and last.cv is the convars Suggest returns
CallSuggest(str, n) ==
    /\ \E order \in Orders(DOMAIN variables) :
           last' = [op |-> "Suggest", name |-> Nil, arg |-> <<str, n>>,
                    calls |-> <<>>,
                    cv |-> Suggest([i \in DOMAIN order |-> variables[order[i]]],
                                   str, n),
                    err |-> "nil", tick |-> 1 - last.tick]
    /\ UNCHANGED <<variables, value, lastReg>>
    /\ NamesFrame

NextNames ==
    \/ \E varName \in RegNames, d \in {IntVal(0), StrVal(<<"a","b">>)} :
           RegConVar(varName, d)
    \/ \E varName \in LookupNames : CallConVar(varName)
    \/ \E cmd \in NameCmds : ExecCmd(cmd)
    \/ \E str \in SuggestStrs, n \in SuggestLimits : CallSuggest(str, n)

SpecNames == InitNames /\ [][NextNames]_vars

(***************************************************************************)
(* Claims of the registry                                                  *)
(***************************************************************************)

\* Two names differ in letter case only
SameButCase(a, b) ==
    /\ Len(a) = Len(b)
    /\ \A i \in 1..Len(a) :
           \/ a[i] = b[i]
           \/ \E k \in DOMAIN Upper : {a[i], b[i]} = {Upper[k], Lower[k]}

\* C9: once a convar created under a name of any letter case is registered,
\* ConVar and ExecCmd resolve every name that differs from it in letter case
\* only to that convar.
C9_NamesIgnoreCase ==
    lastReg.created # Nil =>
        /\ (last.op = "ConVar" /\ SameButCase(last.arg, lastReg.created))
               => last.cv = lastReg.cv
        /\ \A varName \in LookupNames, rest \in CmdRests :
               (last.op = "ExecCmd" /\ last.arg = varName \o rest
                    /\ SameButCase(varName, lastReg.created))
                   => /\ last.err = "nil"
                      /\ last.cv # Nil
                      /\ <<variables[last.cv]>> = lastReg.cv

\* C9's case: a convar was created under "Cl_S" and ExecCmd resolved
\* "cL_s 7" to it.
C9_Witness ==
    /\ lastReg.created = <<"C","l","_","S">>
    /\ last.op = "ExecCmd"
    /\ last.arg = <<"c","L","_","s"," ","7">>
    /\ last.cv = <<"c","l","_","s">>
    /\ <<variables[last.cv]>> = lastReg.cv

\* C10: Suggest returns nothing for a text of fewer than 3 runes, whatever
\* n > 0 and the registry; for a longer text every convar it returns is
\* registered and has the lowered text in its name.
C10_SuggestThreshold ==
    last.op = "Suggest" =>
        LET str == last.arg[1]
        IN  /\ RuneLen(str) < 3 => last.cv = <<>>
            /\ RuneLen(str) >= 3 =>
                   \A i \in DOMAIN last.cv :
                       /\ last.cv[i].varName \in DOMAIN variables
                       /\ variables[last.cv[i].varName] = last.cv[i]
                       /\ Contains(last.cv[i].varName, ToLower(str))

\* C10's case: Suggest("CL_", 2) has returned the two convars registered
\* with "cl_" in their names, and not the third.
C10_Witness ==
    /\ last.op = "Suggest"
    /\ last.arg = << <<"C","L","_">>, 2 >>
    /\ Len(last.cv) = 2
    /\ Cardinality(DOMAIN variables) = 3

(***************************************************************************)
(* The specification of the locks: goroutines call the console, each call  *)
(* taking and releasing varLock and bufLock as its code does, and a        *)
(* callback calls the console again                                        *)
(***************************************************************************)

\* The calls each goroutine makes from outside a callback, the calls a
\* callback may nest, and the console calls a callback makes
MaxLockCalls == 1

MaxDepth == 2

MaxReentries == 2

\* Program with exec releasing varLock by defer, after the callback
Program_DeferredRUnlock(op) ==
    CASE op \in {"ExecCmd", "Load"} -> <<"RLock", "valSet", "RUnlock">>
      [] op = "SetInt" -> <<"valSet">>
      [] op \in {"ConVar", "ConVars", "ResetAllVar", "Save"} -> <<"RLock", "RUnlock">>
      [] op = "RegConVar" -> <<"Lock", "Unlock">>
      [] op \in {"LogInfof", "ClearBuffer", "DumpBuffer"} -> <<"bufLock", "bufUnlock">>

\* What a call does to the locks, in order, and where it invokes a
\* callback (valSet): exec looks the convar up under the read lock and
\* releases it before write; Load is exec on a line; SetInt is write alone.
Program(op) ==
    CASE op \in {"ExecCmd", "Load"} -> <<"RLock", "RUnlock", "valSet">>
      [] op = "SetInt" -> <<"valSet">>
      [] op \in {"ConVar", "ConVars", "ResetAllVar", "Save"} -> <<"RLock", "RUnlock">>
      [] op = "RegConVar" -> <<"Lock", "Unlock">>
      [] op \in {"LogInfof", "ClearBuffer", "DumpBuffer"} -> <<"bufLock", "bufUnlock">>

\* The calls that invoke callbacks, and the calls a callback makes: one
\* call for each way Program uses the locks
WriterOps == {"ExecCmd", "SetInt"}

CallbackOps == {"ResetAllVar", "RegConVar", "Load", "DumpBuffer"}

InitLocks ==
    /\ variables = Registered(NoVars, HostConVars)
    /\ value = [n \in DOMAIN variables |-> variables[n].valDefault]
    /\ panicked = FALSE
    /\ last = [op |-> "NewConsole", name |-> Nil, arg |-> <<>>, calls |-> <<>>,
               cv |-> Nil, err |-> "nil", tick |-> 0]
    /\ thr = [g \in Threads |-> Idle]
    /\ started = [g \in Threads |-> 0]
    /\ nCalls = 0
    /\ nChanges = 0
    /\ bufMaxLines = HostBufMaxLines
    /\ logLevel = LogError
    /\ buffer = <<>>
    /\ appended = <<>>
    /\ saved = NoFile
    /\ fresh = Nil
    /\ lastReg = [created |-> Nil, cv |-> <<>>]
    /\ stack = [g \in Threads |-> <<>>]
    /\ varLock = NoLock
    /\ bufLock = "none"

LocksFrame ==
    UNCHANGED <<variables, value, panicked, last, thr, nCalls, nChanges,
                bufMaxLines, logLevel, buffer, appended, saved, fresh, lastReg>>

\* The innermost call of goroutine g and the instruction it is at
Top(g) == stack[g][Len(stack[g])]

Instr(g) == IF stack[g] = <<>> THEN "none" ELSE Program(Top(g).op)[Top(g).pc]

\* The stack of g after its innermost call has done its instruction: the
\* call returns after its last one
Advanced(g) ==
    LET n == Len(stack[g])
    IN  IF Top(g).pc = Len(Program(Top(g).op))
        THEN SubSeq(stack[g], 1, n - 1)
        ELSE [stack[g] EXCEPT ![n].pc = @ + 1]

\* Goroutine g calls the console
Call(g, op) ==
    /\ stack[g] = <<>>
    /\ started[g] < MaxLockCalls
    /\ stack' = [stack EXCEPT ![g] = <<[op |-> op, pc |-> 1, made |-> 0]>>]
    /\ started' = [started EXCEPT ![g] = @ + 1]
    /\ UNCHANGED <<varLock, bufLock>>
    /\ LocksFrame

\* c.varLock.RLock(): blocks while a goroutine holds or awaits the write lock
RLock(g) ==
    /\ Instr(g) = "RLock"
    /\ varLock.writer = "none"
    /\ varLock.waiting = {}
    /\ varLock' = [varLock EXCEPT !.readers[g] = @ + 1]
    /\ stack' = [stack EXCEPT ![g] = Advanced(g)]
    /\ UNCHANGED <<started, bufLock>>
    /\ LocksFrame

\* c.varLock.RUnlock()
RUnlock(g) ==
    /\ Instr(g) = "RUnlock"
    /\ varLock' = [varLock EXCEPT !.readers[g] = @ - 1]
    /\ stack' = [stack EXCEPT ![g] = Advanced(g)]
    /\ UNCHANGED <<started, bufLock>>
    /\ LocksFrame

\* c.varLock.Lock() begins: from now on new readers block
LockPending(g) ==
    /\ Instr(g) = "Lock"
    /\ g \notin varLock.waiting
    /\ varLock' = [varLock EXCEPT !.waiting = @ \cup {g}]
    /\ UNCHANGED <<stack, started, bufLock>>
    /\ LocksFrame

\* c.varLock.Lock() returns: no reader and no writer is left
Lock(g) ==
    /\ Instr(g) = "Lock"
    /\ g \in varLock.waiting
    /\ varLock.writer = "none"
    /\ \A h \in Threads : varLock.readers[h] = 0
    /\ varLock' = [varLock EXCEPT !.writer = g, !.waiting = @ \ {g}]
    /\ stack' = [stack EXCEPT ![g] = Advanced(g)]
    /\ UNCHANGED <<started, bufLock>>
    /\ LocksFrame

\* c.varLock.Unlock()
Unlock(g) ==
    /\ Instr(g) = "Unlock"
    /\ varLock' = [varLock EXCEPT !.writer = "none"]
    /\ stack' = [stack EXCEPT ![g] = Advanced(g)]
    /\ UNCHANGED <<started, bufLock>>
    /\ LocksFrame

\* c.bufLock.Lock()
BufLock(g) ==
    /\ Instr(g) = "bufLock"
    /\ bufLock = "none"
    /\ bufLock' = g
    /\ stack' = [stack EXCEPT ![g] = Advanced(g)]
    /\ UNCHANGED <<started, varLock>>
    /\ LocksFrame

\* c.bufLock.Unlock()
BufUnlock(g) ==
    /\ Instr(g) = "bufUnlock"
    /\ bufLock' = "none"
    /\ stack' = [stack EXCEPT ![g] = Advanced(g)]
    /\ UNCHANGED <<started, varLock>>
    /\ LocksFrame

\* The callback g is running calls the console
Reenter(g, op) ==
    /\ Instr(g) = "valSet"
    /\ Len(stack[g]) < MaxDepth
    /\ Top(g).made < MaxReentries
    /\ stack' = [stack EXCEPT ![g] =
                    Append([@ EXCEPT ![Len(@)].made = @ + 1],
                           [op |-> op, pc |-> 1, made |-> 0])]
    /\ UNCHANGED <<started, varLock, bufLock>>
    /\ LocksFrame

\* The callback g is running returns
CallbackReturns(g) ==
    /\ Instr(g) = "valSet"
    /\ stack' = [stack EXCEPT ![g] = Advanced(g)]
    /\ UNCHANGED <<started, varLock, bufLock>>
    /\ LocksFrame

NextLocks ==
    \/ \E g \in Threads, op \in WriterOps \cup CallbackOps : Call(g, op)
    \/ \E g \in Threads : RLock(g)
    \/ \E g \in Threads : RUnlock(g)
    \/ \E g \in Threads : LockPending(g)
    \/ \E g \in Threads : Lock(g)
    \/ \E g \in Threads : Unlock(g)
    \/ \E g \in Threads : BufLock(g)
    \/ \E g \in Threads : BufUnlock(g)
    \/ \E g \in Threads, op \in CallbackOps : Reenter(g, op)
    \/ \E g \in Threads : CallbackReturns(g)

SpecLocks == InitLocks /\ [][NextLocks]_vars

\* Goroutine g holds a lock of the console
HoldsLock(g) ==
    varLock.readers[g] > 0 \/ varLock.writer = g \/ bufLock = g

\* Goroutine g is inside a call and can take its next step
CanStep(g) ==
    CASE Instr(g) = "none" -> FALSE
      [] Instr(g) = "RLock" -> varLock.writer = "none" /\ varLock.waiting = {}
      [] Instr(g) = "Lock" ->
             \/ g \notin varLock.waiting
             \/ varLock.writer = "none" /\ \A h \in Threads : varLock.readers[h] = 0
      [] Instr(g) = "bufLock" -> bufLock = "none"
      [] OTHER -> TRUE

\* C16: a goroutine invoking or running a callback, at any depth of its
\* calls, holds neither varLock nor bufLock, and while any goroutine is inside a call
\* some goroutine can step: the console never deadlocks, also with
\* callbacks that call the console again.
C16_NoLockInCallback ==
    /\ \A g \in Threads : Instr(g) = "valSet" => ~HoldsLock(g)
    /\ (\E g \in Threads : stack[g] # <<>>) => \E g \in Threads : CanStep(g)

\* C16's case: g1 is inside the callback of an ExecCmd and, from it, inside
\* RegConVar waiting for the write lock, while g2 holds the read lock.
C16_Witness ==
    /\ Len(stack["g1"]) = 2
    /\ stack["g1"][1].op = "ExecCmd"
    /\ stack["g1"][2].op = "RegConVar"
    /\ "g1" \in varLock.waiting
    /\ varLock.readers["g2"] > 0

(***************************************************************************)
(* Claims of the log buffer                                                *)
(***************************************************************************)

Min(a, b) == IF a < b THEN a ELSE b

\* The last k elements of s, in order
MostRecent(s, k) == SubSeq(s, Len(s) - k + 1, Len(s))

\* C5: for bufMaxLines >= 1 the buffer never holds more than bufMaxLines
\* lines, and BufferRaw returns the most recent min(n, bufMaxLines) of the n
\* lines appended since the last ClearBuffer, oldest first.
C5_BoundedBuffer ==
    bufMaxLines >= 1 =>
        /\ Len(buffer) <= bufMaxLines
        /\ BufferRaw(buffer) =
               MostRecent(appended, Min(Len(appended), bufMaxLines))
        /\ last.op = "BufferRaw" =>
               last.ret = MostRecent(appended, Min(Len(appended), bufMaxLines))

\* C5's case: BufferRaw is called after more lines were logged than the
\* buffer holds, and returns the last two of three.
C5_Witness ==
    /\ last.op = "BufferRaw"
    /\ bufMaxLines = 2
    /\ Len(appended) = 3
    /\ last.ret = <<appended[2], appended[3]>>
    /\ appended[1] # appended[2]

LogHelpers == {"LogInfof", "LogWarningf", "LogErrorf"}

\* C6 as stated: LogInfof, LogWarningf and LogErrorf append a line only
\* when the severity of the helper (Info < Warning < Error) is at most the
\* log level.
C6_Original ==
    (last.op \in LogHelpers /\ Severity(last.op) > logLevel) => last.ret = <<>>

\* C8 as stated: no call on a constructed console panics.
C8_Original == ~panicked

(***************************************************************************)
(* Claims of the sequential specification                                  *)
(***************************************************************************)

SetOps == {"SetInt", "SetBool", "SetFloat64", "SetString"}

\* The step is an error-free ExecCmd of a line with a value token that names
\* convar n, or an error-free SetX on n: an explicit write to n
ExplicitWrite(n) ==
    /\ last'.err = "nil"
    /\ \/ /\ last'.op = "ExecCmd"
          /\ Tokenized[last'.arg].lent >= 2
          /\ Tokenized[last'.arg].tokens[1] = n
       \/ /\ last'.op \in SetOps
          /\ last'.name = n

\* The value an explicit write to n writes
Written(n) ==
    IF last'.op = "ExecCmd"
    THEN Tokenized[last'.arg].parsed[variables[n].varType].v
    ELSE last'.arg

\* A variable (not a command) whose callback the host gave
IsVariable(n) == ~variables[n].isFunc /\ variables[n].valSet = "user"

\* C1: a command-type convar's stored value equals its default in every
\* reachable state, whatever ExecCmd, SetX, Reset, ResetAllVar and Load did.
C1_CommandKeepsDefault ==
    \A n \in DOMAIN variables :
        variables[n].isFunc => value[n] = variables[n].valDefault

\* C1's case: ExecCmd has just run the Int command with the value 5.
C1_Witness ==
    /\ last.op = "ExecCmd"
    /\ last.cv = cl_r
    /\ last.calls = <<[name |-> cl_r, old |-> IntVal(0), new |-> IntVal(5)]>>

BareName(cmd, n) == Tokenized[cmd].tokens = <<n>>

\* C4: ExecCmd of a bare name of a variable (not a command) of any kind
\* returns no error and that variable, changes no value and invokes no
\* callback.
C4_BareNameNoOp ==
    [][\A n \in DOMAIN variables :
          (last'.op = "ExecCmd" /\ BareName(last'.arg, n) /\ ~variables[n].isFunc) =>
              /\ last'.err = "nil"
              /\ last'.cv = n
              /\ value' = value
              /\ last'.calls = <<>>
              /\ ~panicked']_vars

\* C4's case: the bare name of the Int variable has been executed while it
\* holds 7, not its default.
C4_Witness ==
    /\ last.op = "ExecCmd"
    /\ last.arg = cl_w
    /\ last.cv = cl_w
    /\ value[cl_w] = IntVal(7)
    /\ value[cl_f] = NaN


(***************************************************************************)
(* Claims of Load                                                          *)
(***************************************************************************)

\* The first token of the line is n (a line too long to tokenize here
\* counts as naming every convar)
LineNames(line, n) ==
    \/ line \notin DOMAIN Tokenized
    \/ Tokenized[line].lent >= 1 /\ Tokenized[line].tokens[1] = n

\* The line is a valid assignment to the variable n
LineAssigns(line, n) ==
    /\ line \in DOMAIN Tokenized
    /\ Tokenized[line].lent >= 2
    /\ Tokenized[line].tokens[1] = n
    /\ n \in DOMAIN variables
    /\ ~variables[n].isFunc
    /\ Tokenized[line].parsed[variables[n].varType].ok

LineValue(line, n) == Tokenized[line].parsed[variables[n].varType].v

Max(S) == CHOOSE x \in S : \A y \in S : y <= x

\* C11 as stated: a Load that returns has returned an error exactly when the
\* file could not be opened, and then no variable has changed; otherwise a
\* variable no line names keeps its value, and a variable whose last naming
\* line is a valid assignment holds the value of that line, whatever lines
\* come before it.
C11_Original ==
    [][(last'.op = "Load" /\ ~panicked') =>
          IF last'.arg = NoFile
          THEN last'.err # "nil" /\ value' = value
          ELSE /\ last'.err = "nil"
               /\ \A n \in DOMAIN variables :
                      LET file  == last'.arg
                          named == {i \in DOMAIN file : LineNames(file[i], n)}
                      IN  IF named = {}
                          THEN value'[n] = value[n]
                          ELSE LineAssigns(file[Max(named)], n)
                                   => value'[n] = LineValue(file[Max(named)], n)]_vars

\* C12: a Load has invoked the callback of no command (isFunc convar),
\* whatever lines the file holds.
C12_LoadRunsNoCommand ==
    last.op = "Load" =>
        \A i \in DOMAIN last.calls : ~variables[last.calls[i].name].isFunc

\* C12's case: a file naming the Int command cl_r with a value and the
\* String command cl_e bare has been loaded, and the one callback invoked
\* is that of the variable cl_w, set by the last line.
C12_Witness ==
    /\ last.op = "Load"
    /\ last.arg # NoFile
    /\ \E i, j \in DOMAIN last.arg :
           /\ last.arg[i] = cl_r \o Sp \o <<"5">>
           /\ last.arg[j] = cl_e
    /\ Len(last.calls) = 1
    /\ last.calls[1].name = cl_w
    /\ last.calls[1].new = IntVal(-3)

(***************************************************************************)
(* Claims of Save                                                          *)
(***************************************************************************)

\* The variables (not commands) whose value differs from their default
NonDefault ==
    {n \in DOMAIN variables :
        ~variables[n].isFunc /\ value[n] # variables[n].valDefault}

\* C13 as stated: the file Save wrote has exactly one line "<name> <value>"
\* for each variable that is not a command and differs from its default, and
\* no other line; it is empty when every variable holds its default, as
\* after ResetAllVar.
C13_Original ==
    saved # NoFile =>
        LET lines == ScanLines(saved)
        IN  /\ Len(lines) = Cardinality(NonDefault)
            /\ \A n \in NonDefault :
                   \E i \in DOMAIN lines :
                       lines[i] = n \o <<" ">> \o FormatValue(value[n])
            /\ NonDefault = {} => saved = <<>>

(***************************************************************************)
(* Claims of concurrent writers                                            *)
(***************************************************************************)

\* C14 as stated: in every interleaving, the Store of a write that goes on
\* to invoke the callback with (old, new) replaces the value old by new: the
\* variable holds old immediately before that Store.
C14_Original ==
    [][\A g \in Threads :
           (thr[g].pc = "store" /\ thr'[g].pc = "callback")
               => /\ value[thr[g].name] = thr[g].old
                  /\ value'[thr[g].name] = thr[g].v]_vars

\* No goroutine but g has called the console
Alone(g) == \A h \in Threads \ {g} : started[h] = 0

\* C15: when a write is about to invoke the callback of a variable (not a
\* command) with (old, new) and no other goroutine writes, the variable
\* holds new: the Store comes before the callback.
C15_StoreBeforeCallback ==
    \A g \in Threads :
        (thr[g].pc = "callback" /\ ~variables[thr[g].name].isFunc /\ Alone(g))
            => value[thr[g].name] = thr[g].v

\* C15's case: g1, alone, has stored 7 over 10 in cl_w and is about to
\* invoke the callback with (10, 7).
C15_Witness ==
    /\ thr["g1"].pc = "callback"
    /\ thr["g1"].name = cl_w
    /\ thr["g1"].old = IntVal(10)
    /\ thr["g1"].v = IntVal(7)
    /\ Alone("g1")
    /\ value[cl_w] = IntVal(7)

(***************************************************************************)
(* Claims of Suggest                                                       *)
(***************************************************************************)

\* C17 as stated: Suggest(str, limit) has returned at most limit convars,
\* and none when limit is 0 or negative.
C17_Original ==
    last.op = "Suggest" =>
        Len(last.cv) <= (IF last.arg[2] > 0 THEN last.arg[2] ELSE 0)

(***************************************************************************)
(* Claims of ExecCmd                                                       *)
(***************************************************************************)

\* The text is a decimal integer with an optional sign
IsIntegerText(s) ==
    LET body == IF s # <<>> /\ s[1] \in {"+", "-"} THEN Tail(s) ELSE s
    IN  body # <<>> /\ \A i \in DOMAIN body : body[i] \in {Digits[k] : k \in DOMAIN Digits}

\* The tokens after the name are no value of the kind: for Int, text that
\* is no integer or has more than one token
Unparsable(tk, kind) ==
    CASE kind = "Int"     -> tk.lent >= 2 /\ ~(tk.lent = 2 /\ IsIntegerText(tk.tokens[2]))
      [] kind = "Float64" -> ~tk.parsed["Float64"].ok
      [] kind = "String"  -> FALSE

\* The step returned no convar, changed no value and invoked no callback
ChangedNothing ==
    /\ last'.cv = Nil
    /\ value' = value
    /\ last'.calls = <<>>
    /\ ~panicked'

\* C18: an ExecCmd whose first token names no registered convar returns
\* errVarNotFound, one whose value text does not parse as the convar's kind
\* returns errBadStringConversion, for variables and commands alike; either
\* returns no convar, changes no stored value and invokes no callback.
C18_FailingExecChangesNothing ==
    [][last'.op = "ExecCmd" =>
          LET tk == Tokenized[last'.arg]
          IN  (tk.lent >= 1 /\ tk.tokens[1] # <<"#">>) =>
                  IF tk.tokens[1] \notin DOMAIN variables
                  THEN last'.err = "errVarNotFound" /\ ChangedNothing
                  ELSE Unparsable(tk, variables[tk.tokens[1]].varType)
                           => /\ last'.err = "errBadStringConversion"
                              /\ ChangedNothing]_vars

\* C18's case: ExecCmd of the Int command cl_r with the text "x" has
\* returned errBadStringConversion.
C18_Witness ==
    /\ last.op = "ExecCmd"
    /\ last.arg = cl_r \o Sp \o <<"x">>
    /\ last.err = "errBadStringConversion"
    /\ last.calls = <<>>

\* The value a command line supplies, read from the line as the caller
\* gave it: the text after the name, trimmed; for a bare name 0 for the Int
\* kind and the empty string for the String kind
SuppliedText(cmdIn) ==
    LET cmd == TrimSpace(cmdIn)
    IN  IF Fields(cmd) = <<>> THEN <<>>
        ELSE TrimSpace(Drop(cmd, Len(Fields(cmd)[1])))

SuppliedIn(cmdIn, kind) ==
    CASE kind = "String"  -> StrVal(SuppliedText(cmdIn))
      [] kind = "Int"     -> IF SuppliedText(cmdIn) = <<>> THEN IntVal(0)
                             ELSE Atoi(SuppliedText(cmdIn)).v
      [] kind = "Float64" -> IF SuppliedText(cmdIn) = <<>> THEN FloatVal(0, 0)
                             ELSE ParseFloat(SuppliedText(cmdIn)).v

Supplied == [cmd \in CmdInputs |-> [k \in Kinds |-> SuppliedIn(cmd, k)]]

\* C19 as stated: an error-free ExecCmd or SetX on a command invokes its
\* callback exactly once, with the default and the value supplied, whatever
\* that value and whatever earlier calls supplied.
C19_Original ==
    [][/\ \A n \in DOMAIN variables :
              (/\ last'.op = "ExecCmd"
               /\ last'.err = "nil"
               /\ Tokenized[last'.arg].lent >= 1
               /\ Tokenized[last'.arg].tokens[1] = n
               /\ variables[n].isFunc)
                  => last'.calls =
                         <<[name |-> n, old |-> variables[n].valDefault,
                            new |-> Supplied[last'.arg][variables[n].varType]]>>
       /\ (/\ last'.op \in SetOps
           /\ last'.err = "nil"
           /\ variables[last'.name].isFunc)
              => last'.calls =
                     <<[name |-> last'.name,
                        old |-> variables[last'.name].valDefault,
                        new |-> last'.arg]>>]_vars

(***************************************************************************)
(* Claims of the kinds                                                     *)
(***************************************************************************)

\* The kind SetX writes
KindOfSet(op) ==
    CASE op \in {"SetInt", "SetBool"} -> "Int"
      [] op = "SetFloat64" -> "Float64"
      [] op = "SetString" -> "String"

\* C20: after every call each convar's value has the convar's declared
\* kind, and a SetX of another kind than the convar's returns
\* errVarBadType, leaves the values as they were and invokes no callback.
C20_KindInvariant ==
    [][/\ \A n \in DOMAIN variables : KindOf(value'[n]) = variables[n].varType
       /\ (last'.op \in SetOps
               /\ KindOfSet(last'.op) # variables[last'.name].varType)
              => /\ last'.err = "errVarBadType"
                 /\ value' = value
                 /\ last'.calls = <<>>
                 /\ ~panicked']_vars

\* C20's case: SetInt on the String variable cl_s has returned
\* errVarBadType.
C20_Witness ==
    /\ last.op = "SetInt"
    /\ last.name = cl_s
    /\ last.err = "errVarBadType"
    /\ KindOf(value[cl_s]) = "String"

(***************************************************************************)
(* Claims of Reset and ResetAllVar                                         *)
(***************************************************************************)

\* C21: Reset leaves its convar at the default and every other convar as
\* it was; ResetAllVar leaves every convar at its default; neither invokes
\* a callback nor appends to the log buffer.
C21_ResetsAreSilent ==
    [][/\ last'.op = "Reset" =>
              /\ value'[last'.name] = variables[last'.name].valDefault
              /\ \A n \in DOMAIN variables \ {last'.name} : value'[n] = value[n]
              /\ last'.calls = <<>>
              /\ buffer' = buffer
              /\ ~panicked'
       /\ last'.op = "ResetAllVar" =>
              /\ \A n \in DOMAIN variables : value'[n] = variables[n].valDefault
              /\ last'.calls = <<>>
              /\ buffer' = buffer
              /\ ~panicked']_vars

\* C21's case: Reset has put cl_w back to its default 10 while cl_s
\* keeps a value that is not its default.
C21_Witness ==
    /\ last.op = "Reset"
    /\ last.name = cl_w
    /\ value[cl_w] = IntVal(10)
    /\ value[cl_s] # variables[cl_s].valDefault
    /\ last.calls = <<>>

(***************************************************************************)
(* Claims of BufferWrappedRaw                                              *)
(***************************************************************************)

\* The chunks of a line of L code points for the width w: the line itself
\* when L <= w, and else ceil(L / w) chunks, the j-th holding the code
\* points (j - 1) * w + 1 .. j * w of the line, the last one up to L
WrappedLine(line, w) ==
    IF Len(line) <= w THEN <<line>>
    ELSE [j \in 1..((Len(line) + w - 1) \div w) |->
             SubSeq(line, (j - 1) * w + 1,
                    IF j * w < Len(line) THEN j * w ELSE Len(line))]

RECURSIVE WrappedLines(_, _)
WrappedLines(buf, w) ==
    IF buf = <<>> THEN <<>>
    ELSE WrappedLine(Head(buf), w) \o WrappedLines(Tail(buf), w)

\* C22: BufferWrappedRaw(maxWidth) with maxWidth >= 1 returns, for the
\* lines of the buffer in order, a line of at most maxWidth code points
\* unchanged and a longer line of L code points as ceil(L / maxWidth)
\* chunks of maxWidth code points, the last one possibly shorter, that
\* concatenate to the line; the buffer stays as it is.
C22_WrapsInChunks ==
    [][(last'.op = "BufferWrappedRaw" /\ last'.arg >= 1) =>
          /\ ~panicked'
          /\ buffer' = buffer
          /\ last'.ret = WrappedLines(buffer, last'.arg)]_vars

\* C22's case: the buffer holds "a" and a line of 5 code points (6 bytes),
\* and BufferWrappedRaw(2) has returned "a" and chunks of 2, 2 and 1.
C22_Witness ==
    /\ last.op = "BufferWrappedRaw"
    /\ last.arg = 2
    /\ buffer = << <<"a">>, <<"E","<e9>","b","c","d">> >>
    /\ last.ret = << <<"a">>, <<"E","<e9>">>, <<"b","c">>, <<"d">> >>

\* C23 as stated: an ExecCmd that returned no error has returned a convar,
\* whatever the command line.
C23_Original ==
    (last.op = "ExecCmd" /\ last.err = "nil") => last.cv # Nil

=============================================================================
